---- MODULE Spec2Model ----
(***************************************************************************)
(* Model of app.py, the "Master Electrical & Project Suite" Streamlit      *)
(* script.  Every user interaction re-runs the whole script; an action of  *)
(* this model is one such run.  The variables are st.session_state, the    *)
(* only data that survives a run.  What the main page computes in every    *)
(* run from the session state alone (panel counts, the per-zone report,    *)
(* the trunking recommendation) is a state function of those variables:    *)
(* panel_req, report_calc, report_rows, trunking_rec.                      *)
(*                                                                         *)
(* Number representation (Python floats become exact fixed point):         *)
(*   power in kW            -> integer W   (kW * 1000)                     *)
(*   mV/A/m cable impedance -> integer hundredths (mv * 100)               *)
(*   maintenance/utilisation factor -> integer hundredths                  *)
(*   cable cross-section mm2 -> integer hundredths of mm2                  *)
(*   any other quotient     -> reduced fraction <<num, den>>, den > 0      *)
(*   a voltage drop in % that carries the factor 3**0.5 -> the fraction    *)
(*       that multiplies 3**0.5 (the unit is 3**0.5 percent)               *)
(* TLC integers are 32 bits wide: fractions are cross-reduced before they  *)
(* are multiplied, and 3**0.5 is applied by dividing the other side of a   *)
(* comparison by it.                                                       *)
(* The label "mm²" of the source is written "mm2".  A cable string such as *)
(* "2.5mm² 3C" is kept as its whitespace-split tokens <<"2.5mm2", "3C">>.  *)
(* Python's None is the empty tuple << >>, a present value v is <<v>>.     *)
(***************************************************************************)
EXTENDS Integers, Sequences, FiniteSets, TLC

VARIABLES
    project,           \* st.session_state.project: list of zone rows
    eq_counter,        \* st.session_state.eq_counter
    fixture_list,      \* st.session_state.fixture_list
    project_metadata,  \* st.session_state.project_metadata
    tool               \* latest call of a stand-alone sizing function

vars == <<project, eq_counter, fixture_list, project_metadata, tool>>

----------------------------------------------------------------------------
(* Bounds of the model *)

MaxRows == 3        \* longest project list explored
MaxFixtures == 1    \* longest custom fixture list explored
MaxQty == 2         \* largest lift / escalator quantity entered

----------------------------------------------------------------------------
(* Arithmetic helpers *)

None == << >>
Some(v) == <<v>>

Max(a, b) == IF a >= b THEN a ELSE b

CeilAsFloor(n, d) == n \div d

\* math.ceil(n / d) for d > 0 (\div rounds towards minus infinity)
Ceil(n, d) == (n + d - 1) \div d

RECURSIVE GCD(_, _)
GCD(a, b) == IF b = 0 THEN a ELSE GCD(b, a % b)

\* the quotient n / d as a reduced fraction (n >= 0, d > 0)
Frac(n, d) == LET g == GCD(n, d) IN IF n = 0 THEN <<0, 1>> ELSE <<n \div g, d \div g>>

\* product of two fractions, cross-reduced before multiplying
FMul(a, b) ==
    LET g1 == IF a[1] = 0 THEN b[2] ELSE GCD(a[1], b[2])
        g2 == IF b[1] = 0 THEN a[2] ELSE GCD(b[1], a[2])
    IN  Frac((a[1] \div g1) * (b[1] \div g2), (a[2] \div g2) * (b[2] \div g1))

FDiv(a, b) == FMul(a, <<b[2], b[1]>>)

RECURSIVE FLeq(_, _)
\* a <= b for fractions, by comparing integer parts and then the
\* reciprocals of the remainders (no products, so no overflow)
FLeq(a, b) ==
    LET qa == a[1] \div a[2]
        qb == b[1] \div b[2]
        ra == a[1] % a[2]
        rb == b[1] % b[2]
    IN  IF qa # qb THEN qa < qb
        ELSE IF ra = 0 THEN TRUE
        ELSE IF rb = 0 THEN FALSE
        ELSE FLeq(<<b[2], rb>>, <<a[2], ra>>)

\* round(x, 2) of a kW value held in W: nearest multiple of 10 W, exact
\* ties to the even hundredth as Python's round does
Round2(w) ==
    LET q == w \div 10
        r == w % 10
    IN  IF r < 5 THEN 10 * q
        ELSE IF r > 5 THEN 10 * (q + 1)
        ELSE IF q % 2 = 0 THEN 10 * q ELSE 10 * (q + 1)

RECURSIVE MulDivMod(_, _, _)
\* <<q, r>> with a * b = q * c + r and 0 <= r < c, by doubling, so that no
\* intermediate value exceeds 2 * c
MulDivMod(a, b, c) ==
    IF b = 0 THEN <<0, 0>>
    ELSE LET h == MulDivMod(a, b \div 2, c)
             dq == 2 * h[1] + (2 * h[2]) \div c
             dr == (2 * h[2]) % c
         IN  IF b % 2 = 0 THEN <<dq, dr>>
             ELSE <<dq + (a \div c) + (dr + (a % c)) \div c, (dr + (a % c)) % c>>

\* round(x * s, 2), in hundredths, for fractions x >= 0 and s > 0; exact
\* ties to even.  100 * x * s = (q + r / x.den) / s.den with
\* <<q, r>> = MulDivMod(x.num, 100 * s.num, x.den); the part beyond the
\* hundredths is (rem + r / x.den) / s.den, compared with one half.
FRound2Scaled(x, s) ==
    LET m == MulDivMod(x[1], 100 * s[1], x[2])
        h == m[1] \div s[2]               \* floor of the hundredths
        rem == m[1] % s[2]
        k == s[2] \div 2
        above == IF s[2] % 2 = 0
                 THEN rem > k \/ (rem = k /\ m[2] > 0)
                 ELSE rem > k \/ (rem = k /\ 2 * m[2] > x[2])
        tie == IF s[2] % 2 = 0
               THEN rem = k /\ m[2] = 0
               ELSE rem = k /\ 2 * m[2] = x[2]
    IN  IF above \/ (tie /\ h % 2 = 1) THEN h + 1 ELSE h

\* round(x, 2) of a fraction x >= 0, in hundredths
FRound2(x) == FRound2Scaled(x, <<1, 1>>)

----------------------------------------------------------------------------
(* 1. Engineering database *)

Tech(p, l, lux, sqm, iso, cab, dbcap, mv) ==
    [power_w_m2 |-> p, light_w_m2 |-> l, target_lux |-> lux,
     sqm_per_socket |-> sqm, isolator |-> iso, cable |-> cab,
     db_cap_sqm |-> dbcap, mv_a_m |-> mv]

TECH_REFS ==
    ("Residential"      :> Tech(60,   8,  300, 15,  "20A DP", <<"2.5mm2", "3C">>, 500,  1800)) @@
    ("Shopping Center"  :> Tech(85,   15, 500, 20,  "32A TP", <<"4.0mm2", "5C">>, 800,  1100)) @@
    ("Data Center"      :> Tech(1200, 10, 300, 100, "63A TP", <<"16mm2", "5C">>,  300,  280)) @@
    ("Polyclinic"       :> Tech(65,   12, 500, 10,  "20A DP", <<"2.5mm2", "3C">>, 400,  1800)) @@
    ("Hospital"         :> Tech(110,  15, 600, 8,   "32A TP", <<"6.0mm2", "5C">>, 400,  730)) @@
    ("Hawker Center"    :> Tech(180,  12, 300, 5,   "32A SP", <<"4.0mm2", "3C">>, 300,  1100)) @@
    ("Market (Wet)"     :> Tech(45,   10, 200, 25,  "20A DP", <<"2.5mm2", "3C">>, 600,  1800)) @@
    ("Factory (Light)"  :> Tech(85,   12, 400, 15,  "32A TP", <<"4.0mm2", "5C">>, 1000, 1100)) @@
    ("Manufacturing"    :> Tech(450,  15, 500, 30,  "63A TP", <<"25mm2", "5C">>,  1000, 180)) @@
    ("MRT Station (UG)" :> Tech(220,  18, 500, 50,  "63A TP", <<"35mm2", "5C">>,  400,  135)) @@
    ("MRT Station (AG)" :> Tech(120,  12, 400, 50,  "32A TP", <<"10mm2", "5C">>,  600,  440)) @@
    ("MSCP (Carpark)"   :> Tech(15,   5,  150, 100, "32A TP", <<"6.0mm2", "5C">>, 1200, 730)) @@
    ("Lift (Passenger)" :> Tech(0,    0,  0,   0,   "32A TP", <<"6.0mm2", "5C">>, 0,    0)) @@
    ("Escalator"        :> Tech(0,    0,  0,   0,   "63A TP", <<"16mm2", "5C">>,  0,    0))

\* the keys of CABLE_CURRENT in insertion order (ascending cross-section)
CABLE_SIZES ==
    <<"1.5mm2", "2.5mm2", "4.0mm2", "6.0mm2", "10mm2", "16mm2", "25mm2",
      "35mm2", "50mm2">>

CABLE_CURRENT ==
    ("1.5mm2" :> 16) @@ ("2.5mm2" :> 22) @@ ("4.0mm2" :> 30) @@
    ("6.0mm2" :> 38) @@ ("10mm2" :> 52) @@ ("16mm2" :> 70) @@
    ("25mm2" :> 94) @@ ("35mm2" :> 115) @@ ("50mm2" :> 140)

\* mV/A/m in hundredths
CABLE_MV_A_M ==
    ("1.5mm2" :> 2900) @@ ("2.5mm2" :> 1800) @@ ("4.0mm2" :> 1100) @@
    ("6.0mm2" :> 730) @@ ("10mm2" :> 440) @@ ("16mm2" :> 280) @@
    ("25mm2" :> 180) @@ ("35mm2" :> 135) @@ ("50mm2" :> 100)

\* overall cable diameter in tenths of a mm
CABLE_DIAMETER ==
    ("1.5mm2" :> 80) @@ ("2.5mm2" :> 90) @@ ("4.0mm2" :> 105) @@
    ("6.0mm2" :> 115) @@ ("10mm2" :> 135) @@ ("16mm2" :> 155) @@
    ("25mm2" :> 185) @@ ("35mm2" :> 210) @@ ("50mm2" :> 240)

\* math.pi as the fraction 355/113
PI_NUM == 355
PI_DEN == 113

\* pi * (diam/2)^2 in hundredths of mm2 (diam in tenths of mm)
CABLE_AREA ==
    [size \in DOMAIN CABLE_DIAMETER |->
        (PI_NUM * CABLE_DIAMETER[size] * CABLE_DIAMETER[size]) \div (PI_DEN * 4)]

\* (width, height) in mm
TRUNKING_SIZES ==
    << <<50, 50>>, <<75, 50>>, <<100, 50>>, <<100, 75>>, <<150, 75>>,
       <<200, 100>>, <<300, 150>> >>

BREAKER_TYPES == <<"MCB", "MCCB", "RCBO", "RCCB", "ACB">>

CUSTOM_CABLE == ">50mm2 (custom)"
CUSTOM_TRUNKING == ">300x150 mm (custom)"

----------------------------------------------------------------------------
(* 3. Helper functions *)

\* add_fixture: the list with one fixture appended
add_fixture(list, wattage, qty) == Append(list, [wattage |-> wattage, qty |-> qty])

\* remove_fixture: list.pop(index) for a valid 0-based index, else unchanged
remove_fixture(list, index) ==
    IF 0 <= index /\ index < Len(list)
    THEN [i \in 1..(Len(list) - 1) |-> IF i <= index THEN list[i] ELSE list[i + 1]]
    ELSE list

RECURSIVE calculate_lighting_from_fixtures(_)
\* <<total_w, total_qty>> over the fixture list
calculate_lighting_from_fixtures(list) ==
    IF list = << >> THEN <<0, 0>>
    ELSE LET rest == calculate_lighting_from_fixtures(Tail(list))
             f == Head(list)
         IN  <<rest[1] + f.wattage * f.qty, rest[2] + f.qty>>

\* dict.get(key, default) on a lux_params dictionary
Get(d, key, default) == IF key \in DOMAIN d THEN d[key] ELSE default

LOAD_BASED == "Load-based (W/m2)"
LUX_BASED == "Lux-based (lumens)"

\* the lighting branch of calculate_zone:
\* [total_light_w, num_lights, light_w_m2_used]
zone_lighting(area, tech_data, light_method, light_wattage_single, use_custom_fixtures, fixture_list_arg, override_light_w_m2, lux_params) ==
    IF use_custom_fixtures /\ fixture_list_arg # << >>
    THEN LET tq == calculate_lighting_from_fixtures(fixture_list_arg)
         IN  [total_light_w |-> tq[1], num_lights |-> tq[2],
              light_w_m2_used |-> IF area > 0 THEN Frac(tq[1], area) ELSE <<0, 1>>]
    ELSE IF light_method = LOAD_BASED
    THEN LET light_w_m2 == IF override_light_w_m2 # None
                             THEN override_light_w_m2[1]
                             ELSE tech_data.light_w_m2
             total_light_w == area * light_w_m2
         IN  [total_light_w |-> total_light_w,
              num_lights |-> IF light_wattage_single > 0
                             THEN Ceil(total_light_w, light_wattage_single)
                             ELSE 0,
              light_w_m2_used |-> <<light_w_m2, 1>>]
    ELSE LET lp == lux_params[1]
             lux == Get(lp, "lux", tech_data.target_lux)
             lumens_per_fixture == Get(lp, "lumens_per_fixture", 3200)
             mf == Get(lp, "mf", 80)
             uf == Get(lp, "uf", 70)
             required_lumens == lux * area
             \* ceil(required / (lumens * mf * uf)), mf and uf in hundredths
             num_lights == Ceil(required_lumens * 10000, lumens_per_fixture * mf * uf)
             total_light_w == num_lights * light_wattage_single
         IN  [total_light_w |-> total_light_w, num_lights |-> num_lights,
              light_w_m2_used |-> IF area > 0 THEN Frac(total_light_w, area)
                                  ELSE <<0, 1>>]

\* num_sockets = math.ceil(area / sqm_per_socket) if sqm_per_socket > 0 else 0
zone_sockets(area, sqm_per_socket) ==
    IF sqm_per_socket > 0 THEN Ceil(area, sqm_per_socket) ELSE 0

zone_circuits_lights_only(num_sockets, num_lights) == num_lights

\* num_circuits = num_sockets + num_lights
zone_circuits(num_sockets, num_lights) == num_sockets + num_lights

\* calculate_zone; total_power_kw is held in W
calculate_zone(area, tech_data, light_method, light_wattage_single, use_custom_fixtures, fixture_list_arg, override_light_w_m2, lux_params) ==
    LET total_power == area * tech_data.power_w_m2
        lt == zone_lighting(area, tech_data, light_method, light_wattage_single,
                            use_custom_fixtures, fixture_list_arg,
                            override_light_w_m2, lux_params)
        num_sockets == zone_sockets(area, tech_data.sqm_per_socket)
        num_switches == Max(1, Ceil(area, 30))
        num_circuits == zone_circuits(num_sockets, lt.num_lights)
    IN  [power_w_m2 |-> tech_data.power_w_m2,
         light_w_m2 |-> lt.light_w_m2_used,
         total_power_w |-> total_power,
         total_light_w |-> lt.total_light_w,
         total_power_kw |-> total_power,
         num_sockets |-> num_sockets,
         isolator |-> tech_data.isolator,
         cable |-> tech_data.cable,
         num_lights |-> lt.num_lights,
         num_switches |-> num_switches,
         num_circuits |-> num_circuits]

ZERO_DIVISION == "ZeroDivisionError"

\* lumens_per_fixture * mf * uf, the divisor of the lux-based fixture count
\* (mf and uf in hundredths)
lux_divisor(lux_params) ==
    Get(lux_params[1], "lumens_per_fixture", 3200) * Get(lux_params[1], "mf", 80)
        * Get(lux_params[1], "uf", 70)

\* calculate_zone raises ZeroDivisionError: the lux-based branch is taken and
\* its divisor is 0 (the only division of the function without a guard)
calculate_zone_raises(light_method, use_custom_fixtures, fixture_list_arg, lux_params) ==
    /\ ~(use_custom_fixtures /\ fixture_list_arg # << >>)
    /\ light_method # LOAD_BASED
    /\ lux_divisor(lux_params) = 0

\* the outcome of a call of calculate_zone: <<"return", dict>> or <<error>>
calculate_zone_outcome(area, tech_data, light_method, light_wattage_single, use_custom_fixtures, fixture_list_arg, override_light_w_m2, lux_params) ==
    IF calculate_zone_raises(light_method, use_custom_fixtures, fixture_list_arg, lux_params)
    THEN <<ZERO_DIVISION>>
    ELSE <<"return", calculate_zone(area, tech_data, light_method, light_wattage_single,
                                    use_custom_fixtures, fixture_list_arg,
                                    override_light_w_m2, lux_params)>>

RECURSIVE SumCircuits(_)
\* project_df["num_circuits"].sum()
SumCircuits(rows) ==
    IF rows = << >> THEN 0 ELSE Head(rows).num_circuits + SumCircuits(Tail(rows))

CountAtLeast50(rows) == Len(SelectSeq(rows, LAMBDA r : r.total_power_kw >= 50000))

\* (project_df["total_power_kw"] > 50).sum()
CountOver50(rows) == Len(SelectSeq(rows, LAMBDA r : r.total_power_kw > 50000))

estimate_panels(project_df) ==
    IF project_df = << >> THEN [msb |-> 1, db |-> 0, sub |-> 0]
    ELSE [msb |-> 1,
          db |-> Ceil(SumCircuits(project_df), 18),
          sub |-> CountOver50(project_df)]

\* 3**0.5 = 1.7320508076, held as the continued-fraction convergent
\* 18817/10864 = 1.7320508100 (relative error 2e-9)
SQRT3 == <<18817, 10864>>

\* vd <= vd_limit for one table entry, where vd = mv * current * length / 1000
\* for single phase and that times 3**0.5 otherwise
cable_vd_ok(size, current, length, phase, vd_limit) ==
    LET base == Frac(CABLE_MV_A_M[size] * current * length, 100000)
    IN  IF phase = 1 THEN FLeq(base, vd_limit)
        ELSE FLeq(base, FDiv(vd_limit, SQRT3))

cable_suitable_drop_only(size, current, length, phase, vd_limit) ==
    cable_vd_ok(size, current, length, phase, vd_limit)

\* the two tests a table entry passes to be appended to suitable
cable_suitable(size, current, length, phase, vd_limit) ==
    /\ CABLE_CURRENT[size] >= current
    /\ cable_vd_ok(size, current, length, phase, vd_limit)

pick_cable_largest(suitable) == IF suitable # << >> THEN suitable[1] ELSE "50mm2"

\* suitable[0] if suitable else ">50mm2 (custom)"
pick_cable(suitable) == IF suitable # << >> THEN suitable[1] ELSE CUSTOM_CABLE

auto_cable_size(current, length, voltage, phase) ==
    LET max_vd_pct == 4
        vd_limit == Frac(voltage * max_vd_pct, 100)
        suitable == SelectSeq(CABLE_SIZES, LAMBDA size :
                        cable_suitable(size, current, length, phase, vd_limit))
    IN  pick_cable(suitable)

trunking_fits_strict(w, h, required_area) ==
    FLeq(required_area, <<w * h, 1>>) /\ required_area # <<w * h, 1>>

\* w * h >= required_area
trunking_fits(w, h, required_area) == FLeq(required_area, <<w * h, 1>>)

RECURSIVE first_trunking(_, _)
\* the for loop of recommend_trunking from table position i on
first_trunking(i, required_area) ==
    IF i > Len(TRUNKING_SIZES) THEN 0
    ELSE IF trunking_fits(TRUNKING_SIZES[i][1], TRUNKING_SIZES[i][2], required_area)
         THEN i
         ELSE first_trunking(i + 1, required_area)

\* recommend_trunking; the argument is in hundredths of mm2, the result is
\* <<text, area or None, required_area>>
recommend_trunking(total_cable_area_mm2) ==
    LET required_area == Frac(total_cable_area_mm2, 45)
        i == first_trunking(1, required_area)
        w == TRUNKING_SIZES[i][1]
        h == TRUNKING_SIZES[i][2]
    IN  IF i > 0
        THEN <<ToString(w) \o " x " \o ToString(h) \o " mm", Some(w * h), required_area>>
        ELSE <<CUSTOM_TRUNKING, None, required_area>>

----------------------------------------------------------------------------
(* 4. Sidebar: values the script derives from the widgets *)

FIXED_LOAD_TYPES == {"Lift (Passenger)", "Escalator"}

\* suggested_db, the default of the "Number of Sub-boards" input
suggested_db(z_area, z_type) ==
    IF TECH_REFS[z_type].db_cap_sqm > 0
    THEN Ceil(z_area, TECH_REFS[z_type].db_cap_sqm)
    ELSE 1

\* z_db: the sub-board input at its default (min_value 1); 1 for fixed loads
z_db_of(z_area, z_type) ==
    IF z_type \notin FIXED_LOAD_TYPES THEN Max(1, suggested_db(z_area, z_type)) ELSE 1

\* default_breaker, the preselected entry of the breaker selectbox
default_breaker(z_type) ==
    IF TECH_REFS[z_type].isolator \in {"20A DP", "32A SP"} THEN "MCB" ELSE "MCCB"

ev_load_kw_of_no_margin(z_type, lots) ==
    IF z_type = "MSCP (Carpark)" THEN (lots * 7400 * 20) \div 100 ELSE 0

\* ev_load_kw = (lots * 7.4) * 0.20 * 1.20 kW, in W; 0 unless MSCP
ev_load_kw_of(z_type, lots) ==
    IF z_type = "MSCP (Carpark)" THEN (lots * 7400 * 20 * 120) \div 10000 ELSE 0

\* the fixture list as the sidebar leaves it: emptied whenever the
\* "Use multiple fixture types" box is not ticked
sidebar_fixtures(use_custom_fixtures, list) ==
    IF use_custom_fixtures THEN list ELSE << >>

fixed_calc_no_circuit(tech_data, equipment_power) ==
    [total_power_kw |-> equipment_power,
     num_sockets |-> 0,
     isolator |-> tech_data.isolator,
     cable |-> tech_data.cable,
     num_lights |-> 0,
     num_switches |-> 0,
     num_circuits |-> 0,
     light_w_m2 |-> <<0, 1>>,
     power_w_m2 |-> 0]

\* the dict built for calc in the fixed-load branch of "Add to Project"
fixed_calc(tech_data, equipment_power) ==
    [total_power_kw |-> equipment_power,
     num_sockets |-> 0,
     isolator |-> tech_data.isolator,
     cable |-> tech_data.cable,
     num_lights |-> 0,
     num_switches |-> 0,
     num_circuits |-> 1,
     light_w_m2 |-> <<0, 1>>,
     power_w_m2 |-> 0]

\* zone_entry of "Add to Project"
zone_entry_of(z_name, z_type, z_area, z_dist, z_db, breaker_type, calc, equipment_power) ==
    [description |-> z_name,
     type |-> z_type,
     area_m2 |-> z_area,
     power_w_m2 |-> IF z_type \notin {"Lift", "Escalator"} THEN calc.power_w_m2 ELSE 0,
     light_w_m2 |-> calc.light_w_m2,
     total_power_kw |-> Round2(IF z_type \notin {"Lift", "Escalator"}
                               THEN calc.total_power_kw
                               ELSE equipment_power[1]),
     sockets |-> calc.num_sockets,
     isolator |-> calc.isolator,
     breaker_type |-> breaker_type,
     cable |-> calc.cable,
     lights |-> calc.num_lights,
     light_switches |-> calc.num_switches,
     num_circuits |-> calc.num_circuits,
     distance_m |-> z_dist,
     db_count |-> z_db]

\* ev_entry of "Add to Project"
ev_entry_of(z_name, z_dist, ev_load_kw) ==
    [description |-> z_name \o " - EV Charging",
     type |-> "EV Charging",
     area_m2 |-> 0,
     power_w_m2 |-> 0,
     light_w_m2 |-> <<0, 1>>,
     total_power_kw |-> Round2(ev_load_kw),
     sockets |-> 0,
     isolator |-> "32A TP",
     breaker_type |-> "RCBO",
     cable |-> <<"6.0mm2", "5C">>,
     lights |-> 0,
     light_switches |-> 0,
     num_circuits |-> Ceil(ev_load_kw, 7400),
     distance_m |-> z_dist,
     db_count |-> 1]

\* the entry "Add Fixed Equipment" appends for one lift or escalator
equipment_entry(desc, type, power) ==
    [description |-> desc,
     type |-> type,
     area_m2 |-> 0,
     power_w_m2 |-> 0,
     light_w_m2 |-> <<0, 1>>,
     total_power_kw |-> power,
     sockets |-> 0,
     isolator |-> TECH_REFS[type].isolator,
     breaker_type |-> "MCCB",
     cable |-> TECH_REFS[type].cable,
     lights |-> 0,
     light_switches |-> 0,
     num_circuits |-> 1,
     distance_m |-> 30,
     db_count |-> 1]

equipment_entries_increment_first(label, type, power, first, qty) ==
    [i \in 1..qty |-> equipment_entry(label \o " " \o ToString(first + i), type, power)]

\* the rows one for-loop of "Add Fixed Equipment" appends, numbered from
\* the counter value first on
equipment_entries(label, type, power, first, qty) ==
    [i \in 1..qty |-> equipment_entry(label \o " " \o ToString(first + i - 1), type, power)]

----------------------------------------------------------------------------
(* 5.2 Project Summary, 6. Per-Zone Engineering Report, 8. Trunking *)

\* panel_req as the Project Summary section leaves it
panel_req_of(proj) ==
    IF proj # << >> THEN estimate_panels(proj)
    ELSE [msb |-> 0, db |-> 0, sub |-> 0]

md_kw_of_factor_07(total_kw) == Frac(total_kw * 7, 10000)

\* md_kw = total_kw * 0.8, in kW
md_kw_of(total_kw) == Frac(total_kw * 8, 10000)

ib_of_demand(total_kw) ==
    FDiv(Frac(total_kw * 8, 10), FMul(FMul(<<1732, 1000>>, <<400, 1>>), <<85, 100>>))

\* ib = (total_kw * 1000) / (1.732 * 400 * 0.85), in A
ib_of(total_kw) ==
    FDiv(<<total_kw, 1>>, FMul(FMul(<<1732, 1000>>, <<400, 1>>), <<85, 100>>))

\* vd = mv * ib * dist * (3**0.5) / 1000; vd_pct = (vd / 400) * 100.
\* The result is in units of 3**0.5 percent.
vd_pct_of(mv, ib, dist) ==
    LET vd == FDiv(FMul(FMul(Frac(mv, 100), ib), <<dist, 1>>), <<1000, 1>>)
    IN  FMul(vd, Frac(100, 400))

vd_status_of_limit5(vd_pct) == IF FLeq(vd_pct, FDiv(<<5, 1>>, SQRT3)) THEN "Pass" ELSE "Resize"

\* "Pass" if vd_pct <= 4 else "Resize" (vd_pct in units of 3**0.5 percent)
vd_status_of(vd_pct) == IF FLeq(vd_pct, FDiv(<<4, 1>>, SQRT3)) THEN "Pass" ELSE "Resize"

vd_applicable_any_distance(row) ==
    /\ row.area_m2 > 0
    /\ row.cable[1] \in DOMAIN CABLE_MV_A_M

\* the guard of the voltage-drop block of the report loop
vd_applicable(row) ==
    /\ row.area_m2 > 0
    /\ row.cable[1] \in DOMAIN CABLE_MV_A_M
    /\ row.distance_m > 0

\* locals of one iteration of the report loop
report_locals(row) ==
    LET total_kw == row.total_power_kw
        mv == IF row.cable[1] \in DOMAIN CABLE_MV_A_M THEN CABLE_MV_A_M[row.cable[1]] ELSE 0
        computed == vd_applicable(row) /\ mv > 0
        ib == ib_of(total_kw)
        vd_pct == IF computed THEN vd_pct_of(mv, ib, row.distance_m) ELSE <<0, 1>>
    IN  [md_kw |-> md_kw_of(total_kw),
         ib |-> IF vd_applicable(row) THEN Some(ib) ELSE None,
         vd_pct |-> vd_pct,
         vd_status |-> IF computed THEN vd_status_of(vd_pct) ELSE "N/A"]

\* the dict appended to report_rows; kW and % rounded to hundredths (the
\* man-hour column is left out)
report_row(row) ==
    LET loc == report_locals(row)
    IN  [Zone |-> row.description,
         Type |-> row.type,
         Load_kW |-> Round2(row.total_power_kw) \div 10,
         MD_kW |-> FRound2(loc.md_kw),
         Sockets |-> row.sockets,
         Lights |-> row.lights,
         Cable |-> row.cable,
         Breaker |-> row.breaker_type,
         V_Drop_pct |-> FRound2Scaled(loc.vd_pct, SQRT3),
         VD_Status |-> loc.vd_status,
         DBs |-> row.db_count]

report_calc_of(proj) == [i \in 1..Len(proj) |-> report_locals(proj[i])]

report_rows_of(proj) == [i \in 1..Len(proj) |-> report_row(proj[i])]

RECURSIVE total_cable_area_of(_)
\* the trunking loop: sum of CABLE_AREA * circuits over rows whose cable
\* size is in the table
total_cable_area_of(rows) ==
    IF rows = << >> THEN 0
    ELSE LET row == Head(rows)
         IN  (IF row.cable[1] \in DOMAIN CABLE_AREA
              THEN CABLE_AREA[row.cable[1]] * row.num_circuits ELSE 0)
             + total_cable_area_of(Tail(rows))

trunking_rec_of(proj) ==
    IF proj # << >>
    THEN LET total_cable_area == total_cable_area_of(proj)
             rec == recommend_trunking(total_cable_area)
         IN  [total_area |-> total_cable_area,
              recommendation |-> rec[1],
              required_area |-> rec[3]]
    ELSE [total_area |-> 0, recommendation |-> "N/A", required_area |-> <<0, 1>>]

\* what the main page holds at the end of the run that left the session in
\* the current state
panel_req == panel_req_of(project)
report_calc == report_calc_of(project)
report_rows == report_rows_of(project)
trunking_rec == trunking_rec_of(project)

----------------------------------------------------------------------------
(* Inputs explored *)

Names == {"Level 1"}
TypeInputs == {"Residential", "MSCP (Carpark)", "Lift (Passenger)", "Escalator"}
Areas == {168}                    \* floor area, m2
Dists == {30}                     \* distance to MSB, m
Powers == {50004}                 \* equipment power, W
LotCounts == {20}                 \* parking lots
Wattages == {15}                  \* light fixture wattage, W
OverrideVals == {10}              \* custom light W/m2
FixtureWatts == {15}
FixtureQtys == {2}
MetaNames == {"", "Tower A"}
Today == "2026-01-01"

\* the lighting widgets: tick boxes, method and wattage entered.  A
\* non-empty fixture list exists only while the box is ticked.
LightingInputs ==
    {w \in [use_custom_fixtures : BOOLEAN, light_method : {LOAD_BASED, LUX_BASED},
            wattage : Wattages, override_light : BOOLEAN, override_val : OverrideVals] :
        /\ fixture_list # << >> => w.use_custom_fixtures
        /\ w.override_light => (~w.use_custom_fixtures /\ w.light_method = LOAD_BASED)}

\* the lighting arguments the sidebar hands to calculate_zone
sidebar_lighting(w, z_type) ==
    [light_wattage_single |-> IF w.use_custom_fixtures THEN 15 ELSE w.wattage,
     override_light_w_m2 |->
        IF ~w.use_custom_fixtures /\ w.light_method = LOAD_BASED /\ w.override_light
        THEN Some(w.override_val) ELSE None,
     lux_params |->
        IF w.light_method = LUX_BASED
        THEN (IF ~w.use_custom_fixtures
              THEN Some([lux |-> TECH_REFS[z_type].target_lux,
                         lumens_per_fixture |-> 3200, mf |-> 80, uf |-> 70])
              ELSE Some(<< >>))
        ELSE None]

----------------------------------------------------------------------------
(* 2. Session state after the first script run *)

Init ==
    /\ project = << >>
    /\ eq_counter = [lift |-> 1, esc |-> 1]
    /\ project_metadata = [project_name |-> "", project_number |-> "",
                           creator |-> "", date |-> Today]
    /\ fixture_list = << >>
    /\ tool = [fn |-> "none", args |-> << >>, ret |-> << >>]

----------------------------------------------------------------------------
(* Script runs *)

\* "Add to Project" pressed
AddToProject ==
    \E z_name \in Names, z_type \in TypeInputs, z_dist \in Dists, w \in LightingInputs :
      \E z_area \in (IF z_type \in FIXED_LOAD_TYPES THEN {0} ELSE Areas),
         equipment_power \in (IF z_type \in FIXED_LOAD_TYPES
                              THEN {Some(p) : p \in Powers} ELSE {None}),
         lots \in (IF z_type = "MSCP (Carpark)" THEN LotCounts ELSE {0}) :
        LET tech_data == TECH_REFS[z_type]
            fl == sidebar_fixtures(w.use_custom_fixtures, fixture_list)
            lt == sidebar_lighting(w, z_type)
            ev_load_kw == ev_load_kw_of(z_type, lots)
            calc == IF z_type \in FIXED_LOAD_TYPES
                    THEN fixed_calc(tech_data, equipment_power[1])
                    ELSE calculate_zone(z_area, tech_data, w.light_method,
                                        lt.light_wattage_single,
                                        w.use_custom_fixtures, fl,
                                        lt.override_light_w_m2, lt.lux_params)
            zone_entry == zone_entry_of(z_name, z_type, z_area, z_dist,
                                        z_db_of(z_area, z_type),
                                        default_breaker(z_type), calc,
                                        equipment_power)
            added == IF z_type = "MSCP (Carpark)" /\ ev_load_kw > 0
                     THEN <<zone_entry, ev_entry_of(z_name, z_dist, ev_load_kw)>>
                     ELSE <<zone_entry>>
        IN  /\ Len(project) + Len(added) <= MaxRows
            /\ project' = project \o added
            /\ fixture_list' = fl
            /\ UNCHANGED <<eq_counter, project_metadata, tool>>

\* "Add Fixed Equipment" pressed
AddFixedEquipment ==
    \E lift_power \in Powers, esc_power \in Powers,
       lift_qty \in 0..MaxQty, esc_qty \in 0..MaxQty,
       use_custom_fixtures \in (IF fixture_list # << >> THEN {TRUE} ELSE BOOLEAN) :
        /\ Len(project) + lift_qty + esc_qty <= MaxRows
        /\ project' = project
                \o equipment_entries("Lift", "Lift (Passenger)", lift_power,
                                     eq_counter.lift, lift_qty)
                \o equipment_entries("Escalator", "Escalator", esc_power,
                                     eq_counter.esc, esc_qty)
        /\ eq_counter' = [lift |-> eq_counter.lift + lift_qty,
                          esc |-> eq_counter.esc + esc_qty]
        /\ fixture_list' = sidebar_fixtures(use_custom_fixtures, fixture_list)
        /\ UNCHANGED <<project_metadata, tool>>

ClearProject_keeps_fixtures ==
    /\ project' = << >>
    /\ eq_counter' = [lift |-> 1, esc |-> 1]
    /\ UNCHANGED <<fixture_list, project_metadata, tool>>

\* "Clear Project" pressed, followed by the rerun it requests
ClearProject ==
    /\ project' = << >>
    /\ eq_counter' = [lift |-> 1, esc |-> 1]
    /\ fixture_list' = << >>
    /\ UNCHANGED <<project_metadata, tool>>

\* the fixture "Add" button (shown while the box is ticked), then rerun
AddFixture ==
    \E new_watt \in FixtureWatts, new_qty \in FixtureQtys :
        /\ Len(fixture_list) < MaxFixtures
        /\ fixture_list' = add_fixture(fixture_list, new_watt, new_qty)
        /\ UNCHANGED <<project, eq_counter, project_metadata, tool>>

\* the delete button of fixture i (0-based), then rerun
RemoveFixture ==
    \E i \in 0..(Len(fixture_list) - 1) :
        /\ fixture_list' = remove_fixture(fixture_list, i)
        /\ UNCHANGED <<project, eq_counter, project_metadata, tool>>

\* a rerun with the "Use multiple fixture types" box unticked
UntickCustomFixtures ==
    /\ fixture_list # << >>
    /\ fixture_list' = sidebar_fixtures(FALSE, fixture_list)
    /\ UNCHANGED <<project, eq_counter, project_metadata, tool>>

\* a rerun after the project name was edited in the sidebar
EditMetadata ==
    \E proj_name \in MetaNames :
        /\ proj_name # project_metadata.project_name
        /\ project_metadata' = [project_name |-> proj_name,
                                project_number |-> project_metadata.project_number,
                                creator |-> project_metadata.creator,
                                date |-> project_metadata.date]
        /\ fixture_list' = fixture_list
        /\ UNCHANGED <<project, eq_counter, tool>>

Next ==
    \/ AddToProject
    \/ AddFixedEquipment
    \/ ClearProject
    \/ AddFixture
    \/ RemoveFixture
    \/ UntickCustomFixtures
    \/ EditMetadata

Spec == Init /\ [][Next]_vars

----------------------------------------------------------------------------
(* The sizing functions on their own: each step calls one of them on        *)
(* inputs drawn from the sets below and records the call in tool.           *)

MaxPanelRows == 3                 \* longest collection handed to estimate_panels

Currents == {1, 16, 17, 20, 22, 23, 38, 70, 92, 140, 141}     \* load current, A
Lengths == {1, 30, 100, 500}                                  \* cable length, m
Voltages == {230, 400}
Phases == {1, 3}
\* total cable cross-section, hundredths of mm2
CableTotals == {0, 1, 112499, 112500, 112501, 168750, 225000, 225001, 337500,
                506250, 506251, 900000, 2025000, 2025001, 5000000}
ProbeDists == {-1, 0, 30}
ProbeAreas == {0, 168}

\* rows for estimate_panels: equipment at, below and above 50 kW, and EV
\* rows of 17 and 5 circuits
PanelRows ==
    {equipment_entry("Lift 1", "Lift (Passenger)", p) : p \in {49990, 50000, 50010}}
    \cup {ev_entry_of("Level 1", 30, ev_load_kw_of("MSCP (Carpark)", lots)) : lots \in {20, 70}}

RECURSIVE SeqsUpTo(_, _)
\* all sequences over S of length at most n
SeqsUpTo(S, n) ==
    IF n = 0 THEN {<< >>}
    ELSE LET shorter == SeqsUpTo(S, n - 1)
         IN  shorter \cup {Append(q, x) : q \in shorter, x \in S}

\* rows for the report loop: Residential, lift and EV rows as the handlers
\* build them, with the distance (and for Residential the area) overwritten
ProbeRows ==
    {[zone_entry_of("Level 1", "Residential", a, 30, 1, "MCB",
                    calculate_zone(a, TECH_REFS["Residential"], LOAD_BASED, 15,
                                   FALSE, << >>, None, None),
                    None) EXCEPT !.distance_m = d] : a \in ProbeAreas, d \in ProbeDists}
    \cup {[equipment_entry("Lift 1", "Lift (Passenger)", 50004)
              EXCEPT !.distance_m = d] : d \in ProbeDists}
    \cup {ev_entry_of("Level 1", d, ev_load_kw_of("MSCP (Carpark)", 20)) : d \in ProbeDists}

\* arguments for calculate_zone, non-positive denominators included
ZoneAreas == {-10, 0, 100}
ZoneTechs ==
    {TECH_REFS["Residential"],
     [TECH_REFS["Residential"] EXCEPT !.power_w_m2 = 35],
     [TECH_REFS["Residential"] EXCEPT !.sqm_per_socket = 0],
     [TECH_REFS["Residential"] EXCEPT !.sqm_per_socket = -15]}
ZoneWattages == {-5, 0, 15}
ZoneLuxParams ==
    {Some([lux |-> 300, lumens_per_fixture |-> l, mf |-> m, uf |-> 70]) :
        l \in {0, 3200}, m \in {0, 80}} \cup {Some(<< >>)}
ZoneLighting ==
    {[light_method |-> LOAD_BASED, use_custom_fixtures |-> FALSE, fixtures |-> << >>,
      override_light_w_m2 |-> o, lux_params |-> None] : o \in {None, Some(10)}}
    \cup {[light_method |-> LUX_BASED, use_custom_fixtures |-> FALSE, fixtures |-> << >>,
           override_light_w_m2 |-> None, lux_params |-> lp] : lp \in ZoneLuxParams}
    \cup {[light_method |-> m, use_custom_fixtures |-> TRUE,
           fixtures |-> <<[wattage |-> 15, qty |-> 2]>>,
           override_light_w_m2 |-> None,
           lux_params |-> IF m = LUX_BASED THEN Some(<< >>) ELSE None] :
              m \in {LOAD_BASED, LUX_BASED}}

\* section 9, the Cable Sizing Tool: phase follows from the voltage chosen
CableSizingTool ==
    \E current \in Currents, length \in Lengths, voltage \in Voltages :
        LET phase == IF voltage = 230 THEN 1 ELSE 3
        IN  /\ tool' = [fn |-> "cable_sizing_tool",
                        args |-> <<current, length, voltage, phase>>,
                        ret |-> auto_cable_size(current, length, voltage, phase)]
            /\ UNCHANGED <<project, eq_counter, fixture_list, project_metadata>>

CallAutoCableSize ==
    \E current \in Currents, length \in Lengths, voltage \in Voltages, phase \in Phases :
        /\ tool' = [fn |-> "auto_cable_size",
                    args |-> <<current, length, voltage, phase>>,
                    ret |-> auto_cable_size(current, length, voltage, phase)]
        /\ UNCHANGED <<project, eq_counter, fixture_list, project_metadata>>

CallRecommendTrunking ==
    \E total \in CableTotals :
        /\ tool' = [fn |-> "recommend_trunking", args |-> <<total>>,
                    ret |-> recommend_trunking(total)]
        /\ UNCHANGED <<project, eq_counter, fixture_list, project_metadata>>

CallEstimatePanels ==
    \E rows \in SeqsUpTo(PanelRows, MaxPanelRows) :
        /\ tool' = [fn |-> "estimate_panels", args |-> <<rows>>,
                    ret |-> estimate_panels(rows)]
        /\ UNCHANGED <<project, eq_counter, fixture_list, project_metadata>>

\* one pass of the report loop body over a row
CallReportRow ==
    \E row \in ProbeRows :
        /\ tool' = [fn |-> "report_row", args |-> <<row>>,
                    ret |-> <<report_locals(row), report_row(row)>>]
        /\ UNCHANGED <<project, eq_counter, fixture_list, project_metadata>>

\* calculate_zone called on its own
CallCalculateZone ==
    \E area \in ZoneAreas, tech_data \in ZoneTechs, w \in ZoneWattages, l \in ZoneLighting :
        /\ tool' = [fn |-> "calculate_zone",
                    args |-> <<area, tech_data, l.light_method, w, l.use_custom_fixtures,
                               l.fixtures, l.override_light_w_m2, l.lux_params>>,
                    ret |-> calculate_zone_outcome(area, tech_data, l.light_method, w,
                                                   l.use_custom_fixtures, l.fixtures,
                                                   l.override_light_w_m2, l.lux_params)]
        /\ UNCHANGED <<project, eq_counter, fixture_list, project_metadata>>

NextTools ==
    \/ CallCalculateZone
    \/ CableSizingTool
    \/ CallAutoCableSize
    \/ CallRecommendTrunking
    \/ CallEstimatePanels
    \/ CallReportRow

SpecTools == Init /\ [][NextTools]_vars

----------------------------------------------------------------------------
(* Properties *)

AreaTypes == DOMAIN TECH_REFS \ FIXED_LOAD_TYPES

Rows == 1..Len(project)

\* C1 as stated: every stored row (zone, lift/escalator, EV Charging) has
\* num_circuits equal to its socket count plus its light count.
C1_EveryRowSocketsPlusLights ==
    \A i \in Rows : project[i].num_circuits = project[i].sockets + project[i].lights

\* C1 amended: every area-based zone row has num_circuits = sockets + lights;
\* lift/escalator rows have no sockets, no lights and one circuit; EV Charging
\* rows have no sockets, no lights and at least one circuit.
C1_CircuitsByRowKind ==
    \A i \in Rows :
        LET r == project[i]
        IN  /\ r.type \in AreaTypes => r.num_circuits = r.sockets + r.lights
            /\ r.type \in FIXED_LOAD_TYPES =>
                    r.sockets = 0 /\ r.lights = 0 /\ r.num_circuits = 1
            /\ r.type = "EV Charging" =>
                    r.sockets = 0 /\ r.lights = 0 /\ r.num_circuits >= 1

C1_Witness ==
    /\ \E i \in Rows : /\ project[i].type \in AreaTypes
                       /\ project[i].sockets > 0
                       /\ project[i].lights > 0
    /\ \E i \in Rows : project[i].type \in FIXED_LOAD_TYPES
    /\ \E i \in Rows : project[i].type = "EV Charging"

CableCall == tool.fn \in {"auto_cable_size", "cable_sizing_tool"}

\* the claim's two conditions on a table entry for the recorded call: rated
\* current >= requested current, and drop mv*I*L/1000 (times sqrt(3) for
\* three phase) <= voltage * 4 / 100
ClaimEntryOk(size) ==
    LET current == tool.args[1]
        length == tool.args[2]
        voltage == tool.args[3]
        phase == tool.args[4]
        drop == FMul(Frac(CABLE_MV_A_M[size], 100), Frac(current * length, 1000))
        limit == Frac(voltage * 4, 100)
    IN  /\ CABLE_CURRENT[size] >= current
        /\ IF phase = 1 THEN FLeq(drop, limit) ELSE FLeq(FMul(drop, SQRT3), limit)

\* C2: a cable returned by auto_cable_size is a table entry rated at least the
\* requested current whose voltage drop is within the limit, and no entry
\* before it in the table (ascending cross-section) meets both conditions;
\* for current 20, length 30, 230 V single phase that entry is 4.0mm2.
C2_FirstSuitableCable ==
    CableCall =>
        /\ tool.ret # CUSTOM_CABLE =>
              \E k \in 1..Len(CABLE_SIZES) :
                  /\ tool.ret = CABLE_SIZES[k]
                  /\ ClaimEntryOk(CABLE_SIZES[k])
                  /\ \A j \in 1..(k - 1) : ~ClaimEntryOk(CABLE_SIZES[j])
        /\ tool.args = <<20, 30, 230, 1>> => tool.ret = "4.0mm2"

C2_Witness ==
    /\ tool.fn = "cable_sizing_tool"
    /\ tool.args = <<20, 30, 230, 1>>
    /\ tool.ret = "4.0mm2"

\* C3: auto_cable_size returns the sentinel ">50mm2 (custom)" exactly when no
\* table entry meets both the rating and the voltage-drop condition.
C3_SentinelIffNoneSuitable ==
    CableCall =>
        (tool.ret = CUSTOM_CABLE <=>
            \A k \in 1..Len(CABLE_SIZES) : ~ClaimEntryOk(CABLE_SIZES[k]))

\* the largest entry is rated for the current but its drop is over the limit
C3_Witness ==
    /\ CableCall
    /\ tool.ret = CUSTOM_CABLE
    /\ tool.args[1] <= CABLE_CURRENT["50mm2"]

TrunkingArea(k) == TRUNKING_SIZES[k][1] * TRUNKING_SIZES[k][2]

\* C4: recommend_trunking computes required = total / 0.45 and returns the
\* standard size of least area with width*height >= required; when no
\* standard size is large enough it returns ">300x150 mm (custom)" with no
\* area.  (total is in hundredths of mm2, so area >= required is
\* 45 * area >= total.)
C4_SmallestFittingTrunking ==
    tool.fn = "recommend_trunking" =>
        LET total == tool.args[1]
            text == tool.ret[1]
            area == tool.ret[2]
            required == tool.ret[3]
        IN  /\ required[1] * 45 = total * required[2]
            /\ area # None =>
                  \E k \in 1..Len(TRUNKING_SIZES) :
                      /\ area[1] = TrunkingArea(k)
                      /\ text = ToString(TRUNKING_SIZES[k][1]) \o " x "
                                \o ToString(TRUNKING_SIZES[k][2]) \o " mm"
                      /\ 45 * TrunkingArea(k) >= total
                      /\ \A j \in 1..Len(TRUNKING_SIZES) :
                            TrunkingArea(j) < TrunkingArea(k) => 45 * TrunkingArea(j) < total
            /\ area = None =>
                  /\ text = CUSTOM_TRUNKING
                  /\ \A j \in 1..Len(TRUNKING_SIZES) : 45 * TrunkingArea(j) < total

\* a size that fits exactly, reached after a smaller one was rejected
C4_Witness ==
    /\ tool.fn = "recommend_trunking"
    /\ tool.args[1] = 45 * 3750
    /\ tool.ret[2] = Some(3750)

RECURSIVE CircuitsOfFirst(_, _)
\* circuits of the first n rows
CircuitsOfFirst(rows, n) ==
    IF n = 0 THEN 0 ELSE CircuitsOfFirst(rows, n - 1) + rows[n].num_circuits

\* C5: estimate_panels returns db = ceil(sum of num_circuits / 18), sub = the
\* number of rows with total_power_kw strictly above 50, and {msb 1, db 0,
\* sub 0} on an empty collection.
C5_PanelCounts ==
    tool.fn = "estimate_panels" =>
        LET rows == tool.args[1]
            total == CircuitsOfFirst(rows, Len(rows))
        IN  /\ 18 * tool.ret.db >= total
            /\ 18 * (tool.ret.db - 1) < total
            /\ tool.ret.sub =
                  Cardinality({i \in 1..Len(rows) : rows[i].total_power_kw > 50000})
            /\ rows = << >> => tool.ret = [msb |-> 1, db |-> 0, sub |-> 0]

\* a row at exactly 50 kW next to one above it, more than 18 circuits
C5_Witness ==
    /\ tool.fn = "estimate_panels"
    /\ \E i \in 1..Len(tool.args[1]) : tool.args[1][i].total_power_kw = 50000
    /\ \E i \in 1..Len(tool.args[1]) : tool.args[1][i].total_power_kw > 50000
    /\ tool.ret.sub = 1
    /\ tool.ret.db = 2

\* C6 as stated: the panel counts the program holds always have msb = 1, the
\* empty project included.
C6_MsbAlwaysOne == panel_req.msb = 1

RateFactor == Frac(1732 * 400 * 85, 100000)     \* 1.732 * 400 * 0.85

Computed(i) == report_calc[i].vd_status # "N/A"

\* C7 as stated: the line current of a computed row is derived from the
\* demand-adjusted power, Ib * (1.732 * 400 * 0.85) = maxDemandKw * 1000 with
\* maxDemandKw = 0.8 * totalPowerKw.
C7_IbFromMaxDemand ==
    \A i \in Rows :
        LET loc == report_calc[i]
        IN  loc.vd_status # "N/A" =>
                /\ loc.md_kw = Frac(8 * project[i].total_power_kw, 10000)
                /\ FMul(loc.ib[1], RateFactor) = FMul(loc.md_kw, <<1000, 1>>)

\* C7 amended: the line current of a computed row is derived from the row's
\* total power, Ib * (1.732 * 400 * 0.85) = totalPowerKw * 1000, and
\* voltageDropPct * 400 * 1000 / 100 = impedance * Ib * distance * sqrt(3)
\* (both sides of the second equation are held in units of sqrt(3)).
C7_IbFromTotalPower ==
    \A i \in Rows :
        LET r == project[i]
            loc == report_calc[i]
        IN  loc.vd_status # "N/A" =>
                /\ FMul(loc.ib[1], RateFactor) = <<r.total_power_kw, 1>>
                /\ FMul(loc.vd_pct, Frac(400 * 1000, 100))
                       = FMul(FMul(Frac(CABLE_MV_A_M[r.cable[1]], 100), loc.ib[1]),
                              <<r.distance_m, 1>>)

C7_Witness ==
    \E i \in Rows : Computed(i) /\ project[i].total_power_kw > 0

\* an unrounded voltage drop (held in units of sqrt(3) percent) is at most 4
DropAtMost4(vd_pct) == FLeq(FMul(vd_pct, SQRT3), <<4, 1>>)

\* C8 as stated, its last part: the status of a computed row agrees with the
\* "V-Drop %" value shown for it (Pass when that value is <= 4.00).
C8_StatusMatchesShownDrop ==
    \A i \in Rows :
        LET shown == report_rows[i]
        IN  shown.VD_Status # "N/A" =>
                (shown.VD_Status = "Pass" <=> shown.V_Drop_pct <= 400)

\* C8 amended: the status of a computed row is Pass when its unrounded
\* voltage drop is <= 4.0 and Resize otherwise; a row shown at 4.01 or more
\* is Resize and a Pass row is shown at 4.00 or less.
C8_StatusFromUnroundedDrop ==
    \A i \in Rows :
        LET loc == report_calc[i]
            shown == report_rows[i]
        IN  loc.vd_status # "N/A" =>
                /\ shown.VD_Status = loc.vd_status
                /\ shown.VD_Status = (IF DropAtMost4(loc.vd_pct) THEN "Pass" ELSE "Resize")
                /\ shown.V_Drop_pct >= 401 => shown.VD_Status = "Resize"
                /\ shown.VD_Status = "Pass" => shown.V_Drop_pct <= 400

\* a Pass row, and a Resize row whose drop is shown as 4.00
C8_Witness ==
    /\ \E i \in Rows : report_calc[i].vd_status = "Pass"
    /\ \E i \in Rows : /\ report_calc[i].vd_status = "Resize"
                       /\ report_rows[i].V_Drop_pct = 400

\* C9: a row whose distance is non-positive, or whose area is zero while its
\* type is not a fixed load, is reported with status N/A (and a drop of 0).
C9_NotApplicable ==
    tool.fn = "report_row" =>
        LET row == tool.args[1]
            loc == tool.ret[1]
            shown == tool.ret[2]
        IN  (row.distance_m <= 0 \/ (row.area_m2 = 0 /\ row.type \notin FIXED_LOAD_TYPES)) =>
                /\ loc.vd_status = "N/A"
                /\ shown.VD_Status = "N/A"
                /\ shown.V_Drop_pct = 0

\* a row with a positive area and a non-positive distance
C9_Witness ==
    /\ tool.fn = "report_row"
    /\ tool.args[1].area_m2 > 0
    /\ tool.args[1].distance_m <= 0
    /\ tool.ret[2].VD_Status = "N/A"

\* C10 as stated: every lift/escalator row has sockets 0, lights 0, circuits 1
\* and a total power equal to an equipment power that was supplied.
C10_FixedRowKeepsSuppliedPower ==
    \A i \in Rows :
        project[i].type \in FIXED_LOAD_TYPES =>
            /\ project[i].sockets = 0
            /\ project[i].lights = 0
            /\ project[i].num_circuits = 1
            /\ project[i].total_power_kw \in Powers

\* C10 amended: every lift/escalator row has sockets 0, lights 0, circuits 1;
\* its total power is the supplied power when added by "Add Fixed Equipment"
\* and the supplied power rounded to two decimals when added by "Add to
\* Project" (the rows described by the area description entered).
C10_FixedRowPower ==
    \A i \in Rows :
        project[i].type \in FIXED_LOAD_TYPES =>
            /\ project[i].sockets = 0
            /\ project[i].lights = 0
            /\ project[i].num_circuits = 1
            /\ IF project[i].description \in Names
               THEN project[i].total_power_kw \in {Round2(p) : p \in Powers}
               ELSE project[i].total_power_kw \in Powers

\* a lift and an escalator, one row from each handler, one of them rounded
C10_Witness ==
    /\ \E i \in Rows : /\ project[i].type = "Lift (Passenger)"
                       /\ project[i].description \in Names
                       /\ project[i].total_power_kw = 50000
    /\ \E i \in Rows : /\ project[i].type = "Escalator"
                       /\ project[i].description = "Escalator 1"
                       /\ project[i].total_power_kw = 50004

ZoneCall == tool.fn = "calculate_zone"

ZoneCallRaised == tool.ret[1] = ZERO_DIVISION

\* the lighting branch the recorded call of calculate_zone takes
ZoneCallBranch ==
    IF tool.args[5] /\ tool.args[6] # << >> THEN "fixtures"
    ELSE IF tool.args[3] = LOAD_BASED THEN "load" ELSE "lux"

\* lumensPerFixture * maintenanceFactor * utilizationFactor of the recorded
\* call, defaults 3200, 0.8, 0.7 (factors in hundredths)
ZoneCallLuxDivisor ==
    LET lp == tool.args[8][1]
        val(k, d) == IF k \in DOMAIN lp THEN lp[k] ELSE d
    IN  val("lumens_per_fixture", 3200) * val("mf", 80) * val("uf", 70)

\* what the guards of sqm per socket, fixture wattage and area give
ZoneCallGuards ==
    /\ tool.args[2].sqm_per_socket <= 0 => tool.ret[2].num_sockets = 0
    /\ (ZoneCallBranch = "load" /\ tool.args[4] <= 0) => tool.ret[2].num_lights = 0
    /\ (ZoneCallBranch # "load" /\ tool.args[1] <= 0) => tool.ret[2].light_w_m2 = <<0, 1>>

\* C11 as stated: calculate_zone never raises on a division; a zero or
\* negative sqm per socket, fixture wattage, area or lux-based divisor gives 0
\* for the affected quantity.
C11_NeverTraps ==
    ZoneCall =>
        /\ ~ZoneCallRaised
        /\ ZoneCallGuards
        /\ (ZoneCallBranch = "lux" /\ ZoneCallLuxDivisor <= 0) => tool.ret[2].num_lights = 0

\* The part of C11 the code meets: a zero or negative sqm per socket, fixture
\* wattage or area gives 0 for the affected quantity; calculate_zone raises
\* ZeroDivisionError exactly when the lux-based branch is taken with
\* lumensPerFixture * maintenanceFactor * utilizationFactor = 0.
C11_GuardedExceptLuxDivisor ==
    ZoneCall =>
        /\ ZoneCallRaised <=> (ZoneCallBranch = "lux" /\ ZoneCallLuxDivisor = 0)
        /\ ~ZoneCallRaised => ZoneCallGuards

\* a call with sqm per socket, wattage and area all non-positive that returns
C11_Witness ==
    /\ ZoneCall
    /\ tool.args[1] <= 0
    /\ tool.args[2].sqm_per_socket <= 0
    /\ tool.args[4] <= 0
    /\ ZoneCallBranch = "load"
    /\ ~ZoneCallRaised
    /\ tool.ret[2].num_sockets = 0
    /\ tool.ret[2].num_lights = 0

\* the scenario's call: area 100, the Residential row with power density 35
\* (light density 8, 15 m2 per socket), load-based, 15 W fixtures
ScenarioCall ==
    /\ ZoneCall
    /\ tool.args = <<100, [TECH_REFS["Residential"] EXCEPT !.power_w_m2 = 35],
                     LOAD_BASED, 15, FALSE, << >>, None, None>>

\* C12 as stated: the scenario's call returns totalPowerKw = 4.3 (4300 W),
\* numSockets = 7, totalLightWatts = 800, numLights = 54, numCircuits = 61.
C12_ScenarioAsStated ==
    ScenarioCall =>
        /\ tool.ret[1] = "return"
        /\ tool.ret[2].total_power_kw = 4300
        /\ tool.ret[2].num_sockets = 7
        /\ tool.ret[2].total_light_w = 800
        /\ tool.ret[2].num_lights = 54
        /\ tool.ret[2].num_circuits = 61

\* C12 amended: the scenario's call returns totalPowerKw = 3.5 (3500 W, the
\* lighting load is not part of it), numSockets = 7, totalLightWatts = 800,
\* numLights = 54, numCircuits = 61.
C12_Scenario ==
    ScenarioCall =>
        /\ tool.ret[1] = "return"
        /\ tool.ret[2].total_power_kw = 3500
        /\ tool.ret[2].total_power_w = 3500
        /\ tool.ret[2].num_sockets = 7
        /\ tool.ret[2].total_light_w = 800
        /\ tool.ret[2].num_lights = 54
        /\ tool.ret[2].num_circuits = 61

C12_Witness == ScenarioCall /\ tool.ret[1] = "return" /\ tool.ret[2].power_w_m2 = 35

\* the total power a row's handler computed before storing it, in W
ComputedTotals(r) ==
    IF r.type \in FIXED_LOAD_TYPES THEN Powers
    ELSE IF r.type = "EV Charging" THEN {(lots * 7400 * 20 * 120) \div 10000 : lots \in LotCounts}
    ELSE {r.area_m2 * r.power_w_m2}

\* C13 as stated: the maximum demand of every row is 0.8 times the total
\* power computed for it (area * power density for a zone, the supplied
\* power for a fixed load), whatever rounding the stored total went through.
C13_DemandFromComputedTotal ==
    \A i \in Rows :
        LET md == report_calc[i].md_kw
        IN  \E t \in ComputedTotals(project[i]) : FMul(md, <<10000, 1>>) = <<8 * t, 1>>

\* C13 amended: the maximum demand of every row is 0.8 times the row's stored
\* total power, which for a row added by "Add to Project" is the computed
\* total rounded to two decimals (a multiple of 10 W within 5 W of it) and for
\* a row added by "Add Fixed Equipment" the supplied power; the "MD (kW)"
\* column shows the maximum demand rounded to two decimals.
C13_DemandFromStoredTotal ==
    \A i \in Rows :
        LET r == project[i]
            md == report_calc[i].md_kw
            shown == report_rows[i].MD_kW
        IN  /\ FMul(md, <<10000, 1>>) = <<8 * r.total_power_kw, 1>>
            /\ 2 * (100 * md[1] - shown * md[2]) <= md[2]
            /\ 2 * (shown * md[2] - 100 * md[1]) <= md[2]
            /\ IF r.type \in FIXED_LOAD_TYPES /\ r.description \notin Names
               THEN r.total_power_kw \in Powers
               ELSE /\ r.total_power_kw % 10 = 0
                    /\ \E t \in ComputedTotals(r) :
                          r.total_power_kw - t <= 5 /\ t - r.total_power_kw <= 5

\* a lift stored at 50.0 kW for 50.004 kW supplied, next to an area zone
C13_Witness ==
    /\ \E i \in Rows : /\ project[i].type \in FIXED_LOAD_TYPES
                       /\ project[i].total_power_kw = 50000
                       /\ report_rows[i].MD_kW = 4000
    /\ \E i \in Rows : /\ project[i].type \in AreaTypes
                       /\ report_rows[i].MD_kW > 0

\* the rows "Add Fixed Equipment" appended for one equipment type, in
\* insertion order
GeneratedRows(type) ==
    SelectSeq(project, LAMBDA r : r.type = type /\ r.description \notin Names)

\* the counter is one more than the number of generated rows, and the k-th
\* generated row is labelled k
NumberedFromOne(counter, label, type) ==
    LET rows == GeneratedRows(type)
    IN  /\ counter = 1 + Len(rows)
        /\ \A k \in 1..Len(rows) : rows[k].description = label \o " " \o ToString(k)

\* C15: eq_counter['lift'] is 1 plus the number of lift rows added through
\* "Add Fixed Equipment" since the last clear, and those rows are described
\* "Lift 1", "Lift 2", ... in insertion order without gaps or duplicates;
\* likewise eq_counter['esc'] and "Escalator n".  (A press with both
\* quantities 0 is a step that leaves counter and project as they are.)
C15_EquipmentNumbering ==
    /\ NumberedFromOne(eq_counter.lift, "Lift", "Lift (Passenger)")
    /\ NumberedFromOne(eq_counter.esc, "Escalator", "Escalator")

\* two lifts and an escalator, generated and numbered
C15_Witness ==
    /\ eq_counter.lift = 3
    /\ eq_counter.esc = 2
    /\ \E i \in Rows : project[i].description = "Lift 2"
    /\ \E i \in Rows : project[i].description = "Escalator 1"

\* what a step of "Add to Project" does to the project list and the counters
AppendsZoneRows ==
    LET n == Len(project)
        added == SubSeq(project', n + 1, Len(project'))
    IN  /\ Len(project') > n
        /\ SubSeq(project', 1, n) = project
        /\ eq_counter' = eq_counter
        /\ IF added[1].type = "MSCP (Carpark)"
           THEN /\ Len(added) = 2
                /\ added[2].type = "EV Charging"
                /\ added[2].description = added[1].description \o " - EV Charging"
                /\ \E lots \in LotCounts :
                      LET ev == lots * 1776          \* lots * 7.4 * 0.20 * 1.20 kW, in W
                          c == added[2].num_circuits
                      IN  /\ added[2].total_power_kw % 10 = 0
                          /\ added[2].total_power_kw - ev <= 5
                          /\ ev - added[2].total_power_kw <= 5
                          /\ c * 7400 >= ev
                          /\ (c - 1) * 7400 < ev
           ELSE /\ Len(added) = 1
                /\ added[1].type # "EV Charging"

\* C16: "Add to Project" only appends: one row for a building type other
\* than MSCP (Carpark), two rows for MSCP (Carpark), the zone row followed by
\* its "<name> - EV Charging" row with load lots * 7.4 * 0.20 * 1.20 (stored
\* to two decimals) and ceil(load / 7.4) circuits; the rows stored before keep
\* their content and order, and eq_counter is unchanged.
C16_AddToProjectAppends == [][AddToProject => AppendsZoneRows]_vars

\* an MSCP zone and its EV row appended behind an earlier row
C16_Witness ==
    /\ Len(project) = 3
    /\ project[2].type = "MSCP (Carpark)"
    /\ project[3].type = "EV Charging"
    /\ project[3].description = "Level 1 - EV Charging"
    /\ project[3].num_circuits = 5

\* C17: "Clear Project" leaves the project list empty, eq_counter at
\* {lift: 1, esc: 1} and the fixture list empty and does not change the
\* project metadata, so the session continues from the initial state (apart
\* from the metadata entered).
C17_ClearResets ==
    [][ClearProject =>
          /\ project' = << >>
          /\ eq_counter' = [lift |-> 1, esc |-> 1]
          /\ fixture_list' = << >>
          /\ project_metadata' = project_metadata
          /\ project_metadata.project_name = "" => Init']_vars

\* a state in which a press of "Clear Project" changes the list, the
\* counters and the fixture list, with metadata entered
C17_Witness ==
    /\ project # << >>
    /\ eq_counter.lift > 1
    /\ eq_counter.esc > 1
    /\ fixture_list # << >>
    /\ project_metadata.project_name # ""

====
